---- MODULE Spec2Model ----
(***************************************************************************)
(* Push-propagation core of hareactive's Future (src/src/future.ts).       *)
(*                                                                         *)
(* The heap holds the objects the caller has constructed: futures of every *)
(* variant and Subscriptions.  One action is one call made by the caller   *)
(* (a constructor, resolve, a stray push, ...) together with everything    *)
(* that call does synchronously: the recursive resolve/push/listen chain   *)
(* is computed by the operators resolve, push and listen below.  A raised  *)
(* error stops the call where it is raised and keeps the writes made so    *)
(* far, as an uncaught JavaScript exception does.                          *)
(***************************************************************************)
EXTENDS Integers, Sequences, FiniteSets, TLC

\* Bounds of the model.
MaxObj == 3        \* objects the caller constructs, of any variant (Spec)
MaxMaps == 4       \* objects the caller constructs when it builds only
                   \* sinks, pure futures and maps (SpecMaps)
MaxVal == 2        \* values the caller supplies are 1..MaxVal
MaxReResolve == 1  \* calls of resolve on a future that has already occurred
MaxArity == 2      \* parents of a LiftFuture

\* JavaScript's undefined (the value slot before occurrence) and NaN
\* (arithmetic on undefined).
Undef == -1
NaN == -2

Val == 1..MaxVal

VARIABLES
  heap,      \* the objects constructed so far, in order: heap[i] is object i
  behavior,  \* the Behavior collaborator: its sequence of registered observers
  trace,     \* what the last call did: resolve / push / throw events, in order
  err,       \* the error the last call raised to its caller, "none" if it returned
  ghost,     \* per object history: calls of its f, calls of its resolve, whether f raised
  op,        \* the last call made by the caller
  reresolved \* number of resolve calls made on already-occurred futures

vars == <<heap, behavior, trace, err, ghost, op, reresolved>>

----------------------------------------------------------------------------
\* Object records.

\* Future.constructor: listeners = [], occurred and value left unset.
Future(k) ==
  [kind |-> k, occurred |-> FALSE, value |-> Undef, listeners |-> <<>>,
   f |-> <<>>, parent |-> 0, arg |-> 0, futures |-> <<>>, dependencies |-> 0,
   delivered |-> 0, parentOccurred |-> FALSE]

FutureKinds == {"Sink", "Pure", "Map", "MapTo", "Lift", "Chain", "BehaviorFuture"}

\* The fields set by each constructor before it calls listen.
FutureSink == Future("Sink")
\* A PureFuture whose constructor does not set occurred.
PureFutureUnset(v) == [Future("Pure") EXCEPT !.value = v]
PureFuture(v) == [Future("Pure") EXCEPT !.value = v, !.occurred = TRUE]
MapFuture(f, p) == [Future("Map") EXCEPT !.f = f, !.parent = p]
MapToFuture(b, p) == [Future("MapTo") EXCEPT !.value = b, !.parent = p]
LiftFuture(f, ps) ==
  [Future("Lift") EXCEPT !.f = f, !.futures = ps, !.dependencies = Len(ps),
                         !.delivered = 0]
ChainFuture(f, g, p) ==
  [Future("Chain") EXCEPT !.f = f, !.arg = g, !.parent = p,
                          !.parentOccurred = FALSE]
BehaviorFuture == Future("BehaviorFuture")
\* A Subscription is a Consumer, not a Future: only f and parent are its own.
Subscription(f, p) == [Future("Subscription") EXCEPT !.f = f, !.parent = p]

NoGhost == [calls |-> 0, nres |-> 0, raised |-> FALSE, deps |-> <<>>]

----------------------------------------------------------------------------
\* The functions the caller passes in.

\* Mapping functions: a pipeline of primitives, applied left to right, so
\* <<"inc", "dbl">> is x => dbl(inc(x)).
MapFns == {<<"inc">>, <<"dbl">>, <<"boom">>, <<"inc", "dbl">>}
\* Combining functions of lift that take a variable number of arguments.
LiftFns == {<<"digits">>, <<"boomN">>}
\* Bind functions of chain: return the existing future arg, return
\* Future.of(v + 1), or raise.
BindFns == {<<"ret">>, <<"pure">>, <<"boom">>}
\* Side effects of subscribe: return, raise, or (the first time it runs) make
\* the Behavior change to v + 1.
SideFns == {<<"rec">>, <<"boom">>, <<"change">>}

Prim(p, x) ==
  IF x < 0 THEN NaN
  ELSE IF p = "inc" THEN x + 1
  ELSE x * 2

RECURSIVE Pipe(_, _)
Pipe(f, x) == IF f = <<>> THEN x ELSE Pipe(Tail(f), Prim(Head(f), x))

Raises(f) == \E k \in 1..Len(f) : f[k] \in {"boom", "boomN"}

\* (a, b, c) => 100a + 10b + c: the arguments in order, as digits.
RECURSIVE Digits(_)
Digits(vs) ==
  IF vs = <<>> THEN 0
  ELSE IF \E k \in 1..Len(vs) : vs[k] < 0 THEN NaN
  ELSE LET n == Len(vs) IN 10 * Digits(SubSeq(vs, 1, n - 1)) + vs[n]

----------------------------------------------------------------------------
\* The synchronous call chain.  st is the state a call runs in:
\*   h the heap, b the Behavior's observers, tr the trace, err the raised
\*   error ("none": running), g the ghost history.

Ev(e, o, s, by, v) == [ev |-> e, obj |-> o, src |-> s, by |-> by, val |-> v]

\* throw new Error(msg), in a method of o.
Throw(st, o, msg) ==
  [st EXCEPT !.err = msg, !.tr = Append(@, Ev("throw", o, 0, "", 0))]

\* o runs its function f.  Invoke counts the call; Raises(f) says whether f
\* raises, and then the error leaves o's method uncaught.
Invoke(st, o) == [st EXCEPT !.g[o].calls = @ + 1]
UserThrow(st, o) == [Throw(st, o, "user") EXCEPT !.g[o].raised = TRUE]

RECURSIVE resolve(_, _, _), notify(_, _, _, _, _), push(_, _, _, _, _)
RECURSIVE Behavior_push(_, _, _)

\* A listen that delivers the stored value and registers the consumer as well.
listenAlsoAppends(st, fut, i, o) ==
  LET s0 == [st EXCEPT !.tr = Append(@, Ev("listen", o, i, "", 0)),
                       !.h[i].listeners = Append(@, o)]
  IN IF fut.occurred # TRUE THEN s0 ELSE push(s0, o, fut.value, i, "listen")

\* fut.listen(o), for the future fut stored at heap id i (0: a future no
\* variable of the caller holds).
listenOn(st, fut, i, o) ==
  LET s0 == [st EXCEPT !.tr = Append(@, Ev("listen", o, i, "", 0))]
  IN IF fut.occurred # TRUE
       THEN [s0 EXCEPT !.h[i].listeners = Append(@, o)]
       ELSE push(s0, o, fut.value, i, "listen")

listen(st, i, o) == listenOn(st, st.h[i], i, o)

\* A push that forgets the mapping function.
MapFuture_pushUnmapped(st, o, val) == resolve(Invoke(st, o), o, val)

\* A push that stores the mapped value and leaves the listeners for later.
MapFuture_pushNoNotify(st, o, val) ==
  LET w == Pipe(st.h[o].f, val)
  IN [Invoke(st, o) EXCEPT !.h[o].occurred = TRUE, !.h[o].value = w,
                           !.g[o].nres = @ + 1,
                           !.tr = @ \o <<Ev("resolve", o, 0, "", w),
                                         Ev("resolved", o, 0, "", w)>>]

MapFuture_push(st, o, val) ==
  LET s1 == Invoke(st, o)
  IN IF Raises(s1.h[o].f) THEN UserThrow(s1, o)
     ELSE resolve(s1, o, Pipe(s1.h[o].f, val))

MapToFuture_push(st, o, val) == resolve(st, o, st.h[o].value)

PureFuture_push(st, o, val) == Throw(st, o, "A PureFuture should never be pushed to.")

\* A BehaviorFuture that resolves and stays registered.
BehaviorFuture_pushStays(st, o, a) == resolve(st, o, a)

\* A sink that takes a push for a resolve.
FutureSink_pushResolves(st, o, val) == resolve(st, o, val)

FutureSink_push(st, o, val) == Throw(st, o, "A sink should never be pushed to.")

LiftFuture_push(st, o, val) ==
  LET l == st.h[o].dependencies
      s1 == [st EXCEPT !.h[o].delivered = @ + 1]
  IN IF s1.h[o].delivered = l
       THEN LET vals == [k \in 1..l |-> s1.h[s1.h[o].futures[k]].value]
                s2 == Invoke([s1 EXCEPT !.h[o].futures = vals], o)
            IN IF Raises(s2.h[o].f) THEN UserThrow(s2, o)
               ELSE resolve(s2, o, Digits(vals))
       ELSE s1

ChainFuture_push(st, o, val) ==
  IF st.h[o].parentOccurred = FALSE
    THEN LET s1 == Invoke([st EXCEPT !.h[o].parentOccurred = TRUE], o)
             f == s1.h[o].f
         IN IF Raises(f) THEN UserThrow(s1, o)
            ELSE IF f = <<"ret">> THEN listen(s1, s1.h[o].arg, o)
            ELSE listenOn(s1, PureFuture(Prim("inc", val)), 0, o)
    ELSE resolve(st, o, val)

Subscription_push(st, o, a) ==
  LET s1 == Invoke(st, o)
  IN IF Raises(s1.h[o].f) THEN UserThrow(s1, o)
     ELSE IF s1.h[o].f = <<"change">> /\ s1.g[o].calls = 1
       THEN Behavior_push(s1, s1.b, Prim("inc", a))
     ELSE s1

\* Behavior.addListener, Behavior.removeListener
addListener(b, o) == Append(b, o)
removeListener(b, o) == SelectSeq(b, LAMBDA x : x # o)

BehaviorFuture_push(st, o, a) ==
  resolve([st EXCEPT !.b = removeListener(@, o)], o, a)

BehaviorFuture_changeStateDown(st, o) ==
  Throw(st, o, "Behavior future does not support pushing behavior")

push(st, o, val, src, by) ==
  LET s0 == [st EXCEPT !.tr = Append(@, Ev("push", o, src, by, val))]
      k == s0.h[o].kind
  IN CASE k = "Map" -> MapFuture_push(s0, o, val)
       [] k = "MapTo" -> MapToFuture_push(s0, o, val)
       [] k = "Pure" -> PureFuture_push(s0, o, val)
       [] k = "Lift" -> LiftFuture_push(s0, o, val)
       [] k = "Chain" -> ChainFuture_push(s0, o, val)
       [] k = "Sink" -> FutureSink_push(s0, o, val)
       [] k = "Subscription" -> Subscription_push(s0, o, val)
       [] k = "BehaviorFuture" -> BehaviorFuture_push(s0, o, val)

\* A loop that walks the listeners from the last to the first.
RECURSIVE notifyBackwards(_, _, _, _, _)
notifyBackwards(st, i, k, l, val) ==
  IF st.err # "none" \/ k > l THEN st
  ELSE notifyBackwards(push(st, st.h[i].listeners[l - k + 1], val, i, "resolve"),
                       i, k + 1, l, val)

\* A loop that goes on to the next listener after a raised error.
RECURSIVE notifyOn(_, _, _, _, _)
notifyOn(st, i, k, l, val) ==
  IF k > l THEN st
  ELSE notifyOn(push(st, st.h[i].listeners[k], val, i, "resolve"), i, k + 1, l, val)

\* A loop that pushes to the first listener only.
notifyFirst(st, i, k, l, val) ==
  IF st.err # "none" \/ k > l THEN st
  ELSE push(st, st.h[i].listeners[k], val, i, "resolve")

\* The loop of resolve: listeners[k .. l], stopping at a raised error.
notify(st, i, k, l, val) ==
  IF st.err # "none" \/ k > l THEN st
  ELSE notify(push(st, st.h[i].listeners[k], val, i, "resolve"), i, k + 1, l, val)

resolve(st, i, val) ==
  LET s1 == [st EXCEPT !.h[i].occurred = TRUE, !.h[i].value = val,
                       !.tr = Append(@, Ev("resolve", i, 0, "", val)),
                       !.g[i].nres = @ + 1]
      s2 == notify(s1, i, 1, Len(s1.h[i].listeners), val)
  IN IF s2.err # "none" THEN s2
     ELSE [s2 EXCEPT !.tr = Append(@, Ev("resolved", i, 0, "", val))]

\* LiftFuture.constructor's loop: futures[k].listen(this) for k .. l.
RECURSIVE listenAll(_, _, _, _)
listenAll(st, futures, k, o) ==
  IF st.err # "none" \/ k > Len(futures) THEN st
  ELSE listenAll(listen(st, futures[k], o), futures, k + 1, o)

\* The Behavior pushes val to its observers obs; an observer that has been
\* removed in the meantime receives no further value.
Registered(b, o) == \E k \in DOMAIN b : b[k] = o

Behavior_push(st, obs, val) ==
  IF st.err # "none" \/ obs = <<>> THEN st
  ELSE IF ~Registered(st.b, Head(obs)) THEN Behavior_push(st, Tail(obs), val)
  ELSE Behavior_push(push(st, Head(obs), val, 0, "behavior"), Tail(obs), val)

----------------------------------------------------------------------------
\* Calls made by the caller.

Enter == [h |-> heap, b |-> behavior, tr |-> <<>>, err |-> "none", g |-> ghost]

Leave(st, o) ==
  /\ heap' = st.h
  /\ behavior' = st.b
  /\ trace' = st.tr
  /\ err' = st.err
  /\ ghost' = st.g
  /\ op' = o

Call(name, o, v) == [name |-> name, obj |-> o, val |-> v]

Id == DOMAIN heap
Futures == {i \in Id : heap[i].kind \in FutureKinds}
Room(n) == Len(heap) < n
NewId == Len(heap) + 1

\* new: the object exists once its fields are set; deps are the futures it
\* was constructed over.
Construct(rec, deps) ==
  [Enter EXCEPT !.h = Append(@, rec), !.g = Append(@, [NoGhost EXCEPT !.deps = deps])]

Init ==
  /\ heap = <<>>
  /\ behavior = <<>>
  /\ trace = <<>>
  /\ err = "none"
  /\ ghost = <<>>
  /\ op = Call("init", 0, 0)
  /\ reresolved = 0

\* sinkFuture()
SinkFuture ==
  /\ Leave(Construct(FutureSink, <<>>), Call("sinkFuture", NewId, 0))
  /\ UNCHANGED reresolved

\* Future.of(b)
Of(b) ==
  /\ Leave(Construct(PureFuture(b), <<>>), Call("of", NewId, b))
  /\ UNCHANGED reresolved

\* p.map(f)
Map(p, f) ==
  /\ Leave(listen(Construct(MapFuture(f, p), <<p>>), p, NewId), Call("map", NewId, 0))
  /\ UNCHANGED reresolved

\* p.mapTo(b)
MapTo(p, b) ==
  /\ Leave(listen(Construct(MapToFuture(b, p), <<p>>), p, NewId),
           Call("mapTo", NewId, b))
  /\ UNCHANGED reresolved

\* lift(f, ...args): f.length === 1 ? new MapFuture(f, args[0])
\*                                   : new LiftFuture(f, args)
Lift(f, args) ==
  /\ IF f \in MapFns
       THEN Leave(listen(Construct(MapFuture(f, args[1]), <<args[1]>>), args[1], NewId),
                  Call("lift", NewId, 0))
       ELSE Leave(listenAll(Construct(LiftFuture(f, args), args), args, 1, NewId),
                  Call("lift", NewId, 0))
  /\ UNCHANGED reresolved

\* p.chain(f), f returning the future g when it returns an existing one.
Chain(p, f, g) ==
  /\ Leave(listen(Construct(ChainFuture(f, g, p), <<p>>), p, NewId),
           Call("chain", NewId, 0))
  /\ UNCHANGED reresolved

\* p.subscribe(f)
Subscribe(p, f) ==
  /\ Leave(listen(Construct(Subscription(f, p), <<p>>), p, NewId),
           Call("subscribe", NewId, 0))
  /\ UNCHANGED reresolved

\* new BehaviorFuture(b): b.addListener(this)
NewBehaviorFuture ==
  /\ Leave([Construct(BehaviorFuture, <<>>) EXCEPT !.b = addListener(@, NewId)],
           Call("behaviorFuture", NewId, 0))
  /\ UNCHANGED reresolved

\* F.resolve(val): on a sink, or on any future that has already occurred.
Resolve(i, val) ==
  /\ heap[i].kind = "Sink" \/ heap[i].occurred
  /\ heap[i].occurred => reresolved < MaxReResolve
  /\ reresolved' = IF heap[i].occurred THEN reresolved + 1 ELSE reresolved
  /\ Leave(resolve(Enter, i, val), Call("resolve", i, val))

\* A stray o.push(val) on a future that has no parent: a Pure or a Sink.
Push(o, val) ==
  /\ heap[o].kind \in {"Pure", "Sink"}
  /\ Leave(push(Enter, o, val, 0, "caller"), Call("push", o, val))
  /\ UNCHANGED reresolved

\* o.changeStateDown() on a BehaviorFuture
ChangeStateDown(o) ==
  /\ heap[o].kind = "BehaviorFuture"
  /\ Leave(BehaviorFuture_changeStateDown(Enter, o), Call("changeStateDown", o, 0))
  /\ UNCHANGED reresolved

\* The Behavior changes to val and pushes it to its observers.
BehaviorChange(val) ==
  /\ behavior # <<>>
  /\ Leave(Behavior_push(Enter, behavior, val), Call("behaviorChange", 0, val))
  /\ UNCHANGED reresolved

Parents == UNION {[1..n -> Futures] : n \in 1..MaxArity}

Next ==
  \/ Room(MaxObj) /\ SinkFuture
  \/ Room(MaxObj) /\ \E b \in Val : Of(b)
  \/ Room(MaxObj) /\ \E p \in Futures, f \in MapFns : Map(p, f)
  \/ Room(MaxObj) /\ \E p \in Futures, b \in Val : MapTo(p, b)
  \/ Room(MaxObj) /\ \E f \in LiftFns, args \in Parents : Lift(f, args)
  \/ Room(MaxObj) /\ \E f \in MapFns, p \in Futures : Lift(f, <<p>>)
  \/ Room(MaxObj) /\ \E p \in Futures, g \in Futures : Chain(p, <<"ret">>, g)
  \/ Room(MaxObj) /\ \E p \in Futures, f \in BindFns \ {<<"ret">>} : Chain(p, f, 0)
  \/ Room(MaxObj) /\ \E p \in Futures, f \in SideFns : Subscribe(p, f)
  \/ Room(MaxObj) /\ NewBehaviorFuture
  \/ \E i \in Futures, v \in Val : Resolve(i, v)
  \/ \E o \in Futures, v \in Val : Push(o, v)
  \/ \E o \in Futures : ChangeStateDown(o)
  \/ \E v \in Val : BehaviorChange(v)

Spec == Init /\ [][Next]_vars

\* The caller builds only sinks, pure futures and maps, and resolves them.
NextMaps ==
  \/ Room(MaxMaps) /\ SinkFuture
  \/ Room(MaxMaps) /\ \E b \in Val : Of(b)
  \/ Room(MaxMaps) /\ \E p \in Futures, f \in MapFns : Map(p, f)
  \/ \E i \in Futures, v \in Val : Resolve(i, v)

SpecMaps == Init /\ [][NextMaps]_vars

----------------------------------------------------------------------------
\* Reading the trace of the last call.

Events(P(_)) == SelectSeq(trace, P)
IsPush(e) == e.ev = "push"
IsResolve(e) == e.ev = "resolve"
\* The pushes made by the loop of i.resolve, in order.
PushesOf(i) == Events(LAMBDA e : e.ev = "push" /\ e.by = "resolve" /\ e.src = i)
\* The entries into i.resolve, and whether one returned.
ResolvesOf(i) == Events(LAMBDA e : e.ev = "resolve" /\ e.obj = i)
Returned(i) == \E k \in DOMAIN trace : trace[k].ev = "resolved" /\ trace[k].obj = i

----------------------------------------------------------------------------
\* C1: a call of resolve on a future that has already occurred is rejected
\* with an error, leaves the future's value as it was and pushes to no
\* listener.
C1_SecondResolveRejected ==
  [][\A i \in Id :
       (op'.name = "resolve" /\ op'.obj = i /\ heap[i].occurred = TRUE)
         => /\ err' # "none"
            /\ heap'[i].value = heap[i].value
            /\ Len(SelectSeq(trace', IsPush)) = 0]_vars

----------------------------------------------------------------------------
\* C2: F.resolve(v) pushes v to the consumers registered with F.listen before
\* F occurred, each exactly once and in the order of their registration.  A
\* call of resolve that a listener's push ends with an error has pushed a
\* prefix of them; the call of a constructor registers its object at once,
\* so objects registered by their constructors are pushed in the order of
\* their construction.
PrefixOf(s, t) == Len(s) <= Len(t) /\ \A k \in 1..Len(s) : s[k] = t[k]
Targets(es) == [k \in 1..Len(es) |-> es[k].obj]
\* c registered with i from ChainFuture.push, not from its constructor.
Late(c, i) == heap[c].kind = "Chain" /\ heap[c].arg = i

C2_ListenersPushedInOrder ==
  \A i \in Futures :
    LET rs == ResolvesOf(i)
        ps == PushesOf(i)
        ls == heap[i].listeners
    IN /\ Len(rs) <= 1
       /\ Len(rs) = 0 => ps = <<>>
       /\ Len(rs) = 1 =>
            /\ PrefixOf(Targets(ps), ls)
            /\ \A k \in 1..Len(ps) : ps[k].val = rs[1].val
            /\ Returned(i) => Len(ps) = Len(ls)
            /\ err = "none" => Returned(i)
       /\ \A a, b \in 1..Len(ls) :
            (a < b /\ ~Late(ls[a], i) /\ ~Late(ls[b], i)) => ls[a] <= ls[b]

\* A sink with two listeners has been resolved for the first time and the
\* call returned: both were pushed.
C2_Witness ==
  /\ op.name = "resolve" /\ err = "none"
  /\ ghost[op.obj].nres = 1
  /\ Len(heap[op.obj].listeners) = 2
  /\ heap[op.obj].listeners[1] # heap[op.obj].listeners[2]
  /\ Len(PushesOf(op.obj)) = 2

----------------------------------------------------------------------------
\* C3: listen(c) on a future that has already occurred (a Pure future, or
\* any future after its resolve) pushes the stored value to c exactly once,
\* inside the listen call, and does not append c to the listeners.
\*
\* Stated over every call: p has occurred at a listen call when it had
\* occurred before the caller's call or was resolved earlier within it; the
\* stored value is the one of its latest resolve.

\* The positions before k in tr where p.resolve was entered.
ResolvedBefore(tr, p, k) ==
  {j \in 1..(k - 1) : tr[j].ev = "resolve" /\ tr[j].obj = p}
Latest(S) == CHOOSE j \in S : \A m \in S : m <= j

C3_ListenOnOccurredDelivers ==
  [][\A p \in Futures :
       LET tr == trace'
           OccurredAt(k) == heap[p].occurred = TRUE \/ ResolvedBefore(tr, p, k) # {}
           ValueAt(k) == IF ResolvedBefore(tr, p, k) # {}
                           THEN tr[Latest(ResolvedBefore(tr, p, k))].val
                           ELSE heap[p].value
           Listens == {k \in DOMAIN tr : tr[k].ev = "listen" /\ tr[k].src = p}
           Pending == {k \in Listens : ~OccurredAt(k)}
           Delivered == {k \in DOMAIN tr : /\ tr[k].ev = "push"
                                           /\ tr[k].by = "listen"
                                           /\ tr[k].src = p}
       IN /\ \A k \in Listens : OccurredAt(k) =>
               /\ k + 1 \in Delivered
               /\ tr[k + 1].obj = tr[k].obj
               /\ tr[k + 1].val = ValueAt(k)
          /\ \A m \in Delivered : m - 1 \in Listens /\ OccurredAt(m - 1)
          /\ Len(heap'[p].listeners) = Len(heap[p].listeners) + Cardinality(Pending)
          /\ PrefixOf(heap[p].listeners, heap'[p].listeners)]_vars

\* A Subscription was constructed on a future that a resolve call had made
\* occurred: it was pushed the stored value and is not among the listeners.
C3_Witness ==
  /\ op.name = "subscribe" /\ err = "none"
  /\ heap[heap[op.obj].parent].kind = "Sink"
  /\ heap[heap[op.obj].parent].occurred
  /\ \E k \in DOMAIN trace :
        /\ trace[k] = Ev("push", op.obj, heap[op.obj].parent, "listen",
                         heap[heap[op.obj].parent].value)
  /\ \A k \in DOMAIN heap[heap[op.obj].parent].listeners :
        heap[heap[op.obj].parent].listeners[k] # op.obj

----------------------------------------------------------------------------
\* C4: a future made by lift(f, p1..pn) is never occurred while one of
\* p1..pn has not occurred.
Lifts == {i \in Id : heap[i].kind = "Lift"}

C4_LiftWaitsForAllParents ==
  \A l \in Lifts :
    heap[l].occurred =>
      \A k \in DOMAIN ghost[l].deps : heap[ghost[l].deps[k]].occurred

\* C5: F.chain(f) is not occurred in any state where F has not occurred or
\* the future returned by f(F.value) has not occurred.  (Future.of(v + 1),
\* the other future a bind function of the model returns, has always
\* occurred.)
Chains == {i \in Id : heap[i].kind = "Chain"}

C5_ChainWaitsForBoth ==
  \A c \in Chains :
    heap[c].occurred =>
      /\ heap[heap[c].parent].occurred
      /\ heap[c].f = <<"ret">> => heap[heap[c].arg].occurred

\* C6 (map law): F.map(f).map(g) and F.map(x => g(f(x))) built on the same F
\* are never occurred while F is not, and the call in which F becomes occurred
\* with v, when it returns (no listener raised and cut the loop of resolve
\* short), has made both of them occurred, each by one resolve with g(f(v)).
MapLaw(F, m1, m2, mc) ==
  /\ heap[m1].kind = "Map" /\ heap[m1].parent = F
  /\ heap[m2].kind = "Map" /\ heap[m2].parent = m1
  /\ heap[mc].kind = "Map" /\ heap[mc].parent = F
  /\ heap[mc].f = heap[m1].f \o heap[m2].f

C6_MapLaw ==
  [][\A F, m1, m2, mc \in Id :
       MapLaw(F, m1, m2, mc) =>
         /\ ~heap[F].occurred => (~heap[m2].occurred /\ ~heap[mc].occurred)
         /\ (~heap[F].occurred /\ heap'[F].occurred /\ err' = "none") =>
              LET v == heap'[F].value
                  w == Pipe(heap[m2].f, Pipe(heap[m1].f, v))
                  rs(i) == SelectSeq(trace', LAMBDA e : e.ev = "resolve" /\ e.obj = i)
              IN /\ rs(F) = <<Ev("resolve", F, 0, "", v)>>
                 /\ rs(m2) = <<Ev("resolve", m2, 0, "", w)>>
                 /\ rs(mc) = <<Ev("resolve", mc, 0, "", w)>>
                 /\ heap'[m2].occurred /\ heap'[m2].value = w
                 /\ heap'[mc].occurred /\ heap'[mc].value = w]_vars

\* A sink with both futures built on it has been resolved with 1; both hold
\* dbl(inc(1)) = 4.
C6_Witness ==
  /\ op.name = "resolve" /\ err = "none"
  /\ heap[op.obj].kind = "Sink" /\ ghost[op.obj].nres = 1
  /\ \E m1, m2, mc \in Id :
        /\ MapLaw(op.obj, m1, m2, mc)
        /\ heap[m1].f = <<"inc">> /\ heap[m2].f = <<"dbl">>
        /\ heap[m2].occurred /\ heap[mc].occurred
        /\ heap[m2].value = 4 /\ heap[mc].value = 4

\* C7: a side effect passed to F.subscribe has not run while F has not
\* occurred, and has run exactly once when F has occurred (in a history
\* where no function of the caller has raised, so that no call was cut
\* short).
Subscriptions == {i \in Id : heap[i].kind = "Subscription"}
NoneRaised == \A i \in Id : ~ghost[i].raised

C7_SideEffectRunsOnce ==
  \A s \in Subscriptions :
    IF heap[heap[s].parent].occurred
      THEN NoneRaised => ghost[s].calls = 1
      ELSE ghost[s].calls = 0

\* C8, as claimed: occurred never goes back to false, a Pure future is occurred
\* when its constructor returns and a future of any other variant is not.
OccurredMonotonic == \A i \in Id : heap[i].occurred => heap'[i].occurred
Constructs == Len(heap') = Len(heap) + 1
New == heap'[Len(heap')]

C8_CreatedNotOccurred ==
  [][/\ OccurredMonotonic
     /\ Constructs =>
          /\ New.kind = "Pure" => New.occurred
          /\ New.kind \in FutureKinds \ {"Pure"} => ~New.occurred]_vars

\* C8, amended: occurred never goes back to false; a Pure future is occurred
\* when its constructor returns, a Sink or BehaviorFuture is not, and a Map,
\* MapTo, Lift or Chain future is occurred when its constructor returns only
\* if the futures it waits for had all occurred before (its constructor's
\* listen then pushes to it at once); a Map or MapTo over an occurred parent
\* is occurred unless its function raised.
C8_OccurredMonotonic ==
  [][/\ OccurredMonotonic
     /\ Constructs =>
          LET k == New.kind
              deps == ghost'[Len(heap')].deps
              ready == \A d \in DOMAIN deps : heap[deps[d]].occurred
          IN /\ k = "Pure" => New.occurred
             /\ k \in {"Sink", "BehaviorFuture"} => ~New.occurred
             /\ k \in {"Map", "MapTo"} => (New.occurred <=> (ready /\ err' = "none"))
             /\ k = "Lift" => (New.occurred <=> (ready /\ err' = "none"))
             /\ k = "Chain" =>
                  (New.occurred <=>
                     /\ ready /\ err' = "none"
                     /\ New.f = <<"ret">> => heap[New.arg].occurred)]_vars

\* A Map was constructed over a future that had occurred and is occurred when
\* its constructor returns.
C8_Witness ==
  /\ op.name = "map" /\ err = "none"
  /\ heap[op.obj].kind = "Map" /\ heap[op.obj].occurred
  /\ heap[heap[op.obj].parent].kind = "Sink"

\* C9: a push on a Pure future, a push on a Sink and changeStateDown on a
\* BehaviorFuture each raise an error and change nothing: no field of any
\* object, no observer of the Behavior, and no listener is notified.
C9_StrayCallsRejected ==
  [][op'.name \in {"push", "changeStateDown"} =>
       /\ err' = CASE heap[op'.obj].kind = "Pure" ->
                       "A PureFuture should never be pushed to."
                  [] heap[op'.obj].kind = "Sink" ->
                       "A sink should never be pushed to."
                  [] heap[op'.obj].kind = "BehaviorFuture" ->
                       "Behavior future does not support pushing behavior"
       /\ heap' = heap
       /\ behavior' = behavior
       /\ \A k \in DOMAIN trace' :
            /\ trace'[k].ev # "resolve"
            /\ trace'[k].ev = "push" => (k = 1 /\ trace'[k].by = "caller")]_vars

\* A push was made on a sink that has a listener and has not occurred.
C9_Witness ==
  /\ op.name = "push" /\ err # "none"
  /\ heap[op.obj].kind = "Sink"
  /\ heap[op.obj].listeners # <<>>
  /\ ~heap[op.obj].occurred

\* C10: a Map, Lift or Chain future whose function raised while it processed
\* a push is not occurred in any later state.
C10_FailedCombinatorNeverOccurs ==
  \A i \in Id :
    (heap[i].kind \in {"Map", "Lift", "Chain"} /\ ghost[i].raised)
      => ~heap[i].occurred

----------------------------------------------------------------------------
\* C11 (quiescence): in a history where no function of the caller has raised
\* (so that every resolve has returned), no derived future is pending with all
\* its inputs available when a call returns: a Map or MapTo on an occurred
\* future is occurred, a Lift whose parents have all occurred is occurred, a
\* Chain whose parent and returned future have both occurred is occurred, and
\* a Subscription on an occurred future has run.
Ready(d) ==
  /\ \A k \in DOMAIN ghost[d].deps : heap[ghost[d].deps[k]].occurred
  /\ (heap[d].kind = "Chain" /\ heap[d].f = <<"ret">>) => heap[heap[d].arg].occurred

Derived == {i \in Id : heap[i].kind \in {"Map", "MapTo", "Lift", "Chain"}}

----------------------------------------------------------------------------
\* C12 (depth first): when the loop of F.resolve pushes L1 and later L2, every
\* resolve entered in between (L1's, and those of the futures below L1) has
\* pushed all its listeners and has returned before L2 is pushed; a Map L1
\* enters its resolve directly on its push.
Between(a, b) == {k \in DOMAIN trace : a < k /\ k < b}
LoopPush(k, F) ==
  trace[k].ev = "push" /\ trace[k].by = "resolve" /\ trace[k].src = F

C12_DepthFirst ==
  \A F \in Futures : \A a, b \in DOMAIN trace :
    (a < b /\ LoopPush(a, F) /\ LoopPush(b, F)) =>
      /\ heap[trace[a].obj].kind = "Map" =>
           /\ trace[a + 1].ev = "resolve"
           /\ trace[a + 1].obj = trace[a].obj
      /\ \A r \in Between(a, b) :
           trace[r].ev = "resolve" =>
             LET y == trace[r].obj
                 v == trace[r].val
             IN /\ \E q \in Between(r, b) : trace[q] = Ev("resolved", y, 0, "", v)
                /\ \A k \in DOMAIN heap[y].listeners :
                     \E c \in Between(r, b) :
                       trace[c] = Ev("push", heap[y].listeners[k], y, "resolve", v)

\* F has the listeners L1 and L2, L1 has a listener X, and F.resolve pushed
\* L1, then X, then L2.
C12_Witness ==
  /\ op.name = "resolve" /\ err = "none"
  /\ Len(heap[op.obj].listeners) = 2
  /\ LET L1 == heap[op.obj].listeners[1]
         L2 == heap[op.obj].listeners[2]
     IN /\ L1 # L2
        /\ Len(heap[L1].listeners) = 1
        /\ \E a, c, b \in DOMAIN trace :
              /\ a < c /\ c < b
              /\ LoopPush(a, op.obj) /\ trace[a].obj = L1
              /\ LoopPush(c, L1) /\ trace[c].obj = heap[L1].listeners[1]
              /\ LoopPush(b, op.obj) /\ trace[b].obj = L2

----------------------------------------------------------------------------
\* C13: once a future has occurred its listeners are not appended to and no
\* later call iterates them; within a call, a listen made after the future's
\* resolve was entered does not change the sequence that resolve iterates.
C13_ListenersFrozen ==
  [][\A i \in Id :
       LET tr == trace'
           Entered(k) == ResolvedBefore(tr, i, k) # {}
           Early == {k \in DOMAIN tr : /\ tr[k].ev = "listen" /\ tr[k].src = i
                                        /\ ~Entered(k)}
       IN /\ heap[i].occurred =>
               /\ heap'[i].listeners = heap[i].listeners
               /\ \A k \in DOMAIN tr :
                    ~(tr[k].ev = "push" /\ tr[k].by = "resolve" /\ tr[k].src = i)
          /\ ~heap[i].occurred =>
               Len(heap'[i].listeners) = Len(heap[i].listeners) + Cardinality(Early)]_vars

----------------------------------------------------------------------------
\* C14: a Chain calls its bind function at most once, and every resolve of
\* the Chain is entered on a push made by the future the bind function
\* returned (the future arg, or the Future.of(v + 1) that no variable holds),
\* with the value pushed.  (A resolve the caller itself calls on the Chain is
\* not one of the Chain's.)
Returned_by(c) == IF heap[c].f = <<"ret">> THEN heap[c].arg ELSE 0

C14_ChainResolvesFromReturned ==
  \A c \in Chains :
    /\ ghost[c].calls <= 1
    /\ \A k \in DOMAIN trace :
         (/\ trace[k].ev = "resolve" /\ trace[k].obj = c
          /\ ~(op.name = "resolve" /\ op.obj = c /\ k = 1)) =>
           /\ k > 1
           /\ trace[k - 1].ev = "push" /\ trace[k - 1].obj = c
           /\ trace[k - 1].src = Returned_by(c)
           /\ trace[k - 1].val = trace[k].val

----------------------------------------------------------------------------
\* C15: a future that has not occurred has its value slot unset (undefined).
C15_ValueUnsetUntilOccurred ==
  \A i \in Futures : ~heap[i].occurred => heap[i].value = Undef

----------------------------------------------------------------------------
\* C16: a BehaviorFuture is registered on the Behavior when its constructor
\* returns; in every call it is pushed at most once, and only while it has not
\* occurred; the push removes it from the Behavior's observers and resolves it
\* with the value pushed, also when one of its listeners makes the Behavior
\* change again from within that resolve.
BehaviorFutures == {i \in Id : heap[i].kind = "BehaviorFuture"}

C16_BehaviorFutureFiresOnce ==
  [][/\ (Constructs /\ New.kind = "BehaviorFuture") =>
          Registered(behavior', Len(heap'))
     /\ \A o \in BehaviorFutures :
          LET P == {k \in DOMAIN trace' : trace'[k].ev = "push" /\ trace'[k].obj = o}
          IN /\ Cardinality(P) <= 1
             /\ Registered(behavior, o) <=> ~heap[o].occurred
             /\ \A k \in P :
                  /\ ~heap[o].occurred
                  /\ ~Registered(behavior', o)
                  /\ trace'[k + 1] = Ev("resolve", o, 0, "", trace'[k].val)
                  /\ heap'[o].occurred /\ heap'[o].value = trace'[k].val
                  /\ ghost'[o].nres = 1
             /\ P = {} => Registered(behavior', o) = Registered(behavior, o)]_vars

\* The Behavior changed, the BehaviorFuture was resolved with the new value
\* and its listener made the Behavior change again from within that resolve.
C16_Witness ==
  /\ op.name = "behaviorChange" /\ err = "none"
  /\ \E o, s \in Id :
        /\ heap[o].kind = "BehaviorFuture" /\ heap[o].occurred
        /\ heap[o].value = op.val
        /\ heap[s].kind = "Subscription" /\ heap[s].parent = o
        /\ heap[s].f = <<"change">> /\ ghost[s].calls = 1
        /\ heap[o].listeners = <<s>>

----------------------------------------------------------------------------
\* C17: when the constructor of a map, mapTo, lift or chain returns, the new
\* future is in the same occurred/value state as every future built by the
\* same call on the same parents before they occurred (it is among their
\* listeners) and resolved at most once; and a map, mapTo or lift over
\* parents that have all occurred is occurred when its constructor returns.
\* (In a history where no function of the caller has raised.)
SameCall(a, b) ==
  /\ a.kind = b.kind /\ a.f = b.f /\ a.parent = b.parent /\ a.arg = b.arg
  /\ a.dependencies = b.dependencies

C17_ConstructionTimeDoesNotMatter ==
  [][(/\ Constructs
      /\ New.kind \in {"Map", "MapTo", "Lift", "Chain"}
      /\ \A i \in DOMAIN heap' : ~ghost'[i].raised) =>
       LET n == Len(heap')
           deps == ghost'[n].deps
       IN /\ \A t \in Id :
               (/\ SameCall(heap[t], New)
                /\ ghost[t].deps = deps
                /\ ghost[t].nres <= 1
                /\ \A k \in DOMAIN deps :
                     \E j \in DOMAIN heap[deps[k]].listeners :
                       heap[deps[k]].listeners[j] = t
                /\ New.kind = "MapTo" => op'.val \in {heap[t].value}) =>
                 /\ heap'[t].occurred = New.occurred
                 /\ New.occurred => heap'[t].value = New.value
          /\ (/\ New.kind \in {"Map", "MapTo", "Lift"}
              /\ \A k \in DOMAIN deps : heap[deps[k]].occurred) => New.occurred]_vars

----------------------------------------------------------------------------
\* C18: a resolve of F with v that a listener's push ended with an error
\* leaves F occurred with v; it has pushed the listeners up to the failing
\* one, in order, and none after it, and the error is the last thing the call
\* did; the listeners of F are pushed by F only in a call that enters
\* F.resolve.
Cut(F) == ResolvesOf(F) # <<>> /\ ~Returned(F)

C18_RaiseLeavesResolved ==
  \A F \in Futures :
    /\ ResolvesOf(F) = <<>> => PushesOf(F) = <<>>
    /\ Cut(F) =>
         LET v == ResolvesOf(F)[1].val
             ps == PushesOf(F)
             ls == heap[F].listeners
         IN /\ err # "none"
            /\ trace[Len(trace)].ev = "throw"
            /\ heap[F].occurred /\ heap[F].value = v
            /\ Len(ps) >= 1 /\ Len(ps) <= Len(ls)
            /\ \A k \in 1..Len(ps) : ps[k].obj = ls[k] /\ ps[k].val = v
            /\ \A k \in (Len(ps) + 1)..Len(ls) :
                 \A j \in DOMAIN trace :
                   ~(trace[j].ev = "push" /\ trace[j].src = F /\ trace[j].obj = ls[k])

\* F has three listeners; F.resolve pushed the first, the push of the second
\* raised, and the third has not been pushed and has not occurred.
C18_Witness ==
  /\ op.name = "resolve" /\ err = "user"
  /\ Cut(op.obj)
  /\ Len(heap[op.obj].listeners) = 3
  /\ Len(PushesOf(op.obj)) = 2
  /\ heap[heap[op.obj].listeners[1]].occurred
  /\ ghost[heap[op.obj].listeners[2]].raised
  /\ ~heap[heap[op.obj].listeners[3]].occurred
  /\ ghost[heap[op.obj].listeners[3]].calls = 0

====
